---------------------------- MODULE Spec2Model ----------------------------
(***************************************************************************)
(* parseMIMEmail.go: main reads a mail message, checks that its            *)
(* Content-Type is multipart/*, and calls ParsePart, which walks the MIME  *)
(* parts of the body, calls itself on every multipart part, and hands      *)
(* every other part to BuildFileName and WritePart.                        *)
(*                                                                         *)
(* Header values and file names are strings; bodies and file contents are  *)
(* sequences of byte values (0..255).                                      *)
(***************************************************************************)
EXTENDS Integers, Sequences, FiniteSets, TLC

(***************************************************************************)
(* Bounds of the inputs.                                                   *)
(***************************************************************************)
\* the number of MIME parts of a message body, nested parts included
MaxParts == 3
\* the deepest ParsePart call (its index argument) the bounded inputs reach
MaxNest == 3

(***************************************************************************)
(* Strings and bytes.                                                      *)
(***************************************************************************)
\* the printable ASCII characters 32..95 and 97..126, in order
AsciiLow == " !\"#$%&'()*+,-./0123456789:;<=>?@ABCDEFGHIJKLMNOPQRSTUVWXYZ[\\]^_"
AsciiHigh == "abcdefghijklmnopqrstuvwxyz{|}~"

\* strings.Index for a one-character needle: 0 when absent
RECURSIVE IndexFrom(_, _, _)
IndexFrom(s, c, i) ==
    IF i > Len(s) THEN 0
    ELSE IF SubSeq(s, i, i) = c THEN i
    ELSE IndexFrom(s, c, i + 1)

Index(s, c) == IndexFrom(s, c, 1)

\* the byte value of a one-character string
Ord(c) ==
    IF Index(AsciiLow, c) > 0 THEN 31 + Index(AsciiLow, c) ELSE 96 + Index(AsciiHigh, c)

\* the one-character string of a byte value
Chr(n) == IF n <= 95 THEN SubSeq(AsciiLow, n - 31, n - 31) ELSE SubSeq(AsciiHigh, n - 96, n - 96)

\* []byte(s)
RECURSIVE Bytes(_)
Bytes(s) == IF Len(s) = 0 THEN <<>> ELSE <<Ord(Head(s))>> \o Bytes(Tail(s))

IsUpperChar(c) == Ord(c) >= 65 /\ Ord(c) <= 90
IsLowerChar(c) == Ord(c) >= 97 /\ Ord(c) <= 122

\* strings.ToUpper, on ASCII
RECURSIVE ToUpper(_)
ToUpper(s) ==
    IF Len(s) = 0 THEN ""
    ELSE (IF IsLowerChar(Head(s)) THEN Chr(Ord(Head(s)) - 32) ELSE Head(s))
         \o ToUpper(Tail(s))

\* strings.ToLower, on ASCII (mime.ParseMediaType lowers the media type)
RECURSIVE ToLower(_)
ToLower(s) ==
    IF Len(s) = 0 THEN ""
    ELSE (IF IsUpperChar(Head(s)) THEN Chr(Ord(Head(s)) + 32) ELSE Head(s))
         \o ToLower(Tail(s))

\* strings.HasPrefix
HasPrefix(s, prefix) ==
    Len(s) >= Len(prefix) /\ SubSeq(s, 1, Len(prefix)) = prefix

\* strings.TrimSpace, on spaces and tabs
RECURSIVE TrimLeft(_)
TrimLeft(s) ==
    IF Len(s) > 0 /\ Head(s) = " " THEN TrimLeft(Tail(s)) ELSE s

RECURSIVE TrimRight(_)
TrimRight(s) ==
    IF Len(s) > 0 /\ SubSeq(s, Len(s), Len(s)) = " "
    THEN TrimRight(SubSeq(s, 1, Len(s) - 1))
    ELSE s

TrimSpace(s) == TrimLeft(TrimRight(s))


(***************************************************************************)
(* encoding/base64: StdEncoding.DecodeString.  Carriage returns and line   *)
(* feeds are skipped, every quantum of four characters gives three bytes,  *)
(* the last quantum may end in one or two '=', and anything else is a      *)
(* CorruptInputError.                                                      *)
(***************************************************************************)
DecodeOk(data) == [err |-> FALSE, data |-> data]
DecodeErr == [err |-> TRUE, data |-> <<>>]

\* the 6-bit value of a base64 character, -1 for a byte outside the alphabet
B64Val(b) ==
    IF b >= 65 /\ b <= 90 THEN b - 65
    ELSE IF b >= 97 /\ b <= 122 THEN b - 71
    ELSE IF b >= 48 /\ b <= 57 THEN b + 4
    ELSE IF b = 43 THEN 62
    ELSE IF b = 47 THEN 63
    ELSE -1

Drop(s, n) == SubSeq(s, n + 1, Len(s))

\* out is what the quanta before s gave
RECURSIVE B64Quanta(_, _)
B64Quanta(s, out) ==
    IF Len(s) = 0 THEN DecodeOk(out)
    ELSE IF Len(s) < 4 THEN DecodeErr
    ELSE LET va == B64Val(s[1])
             vb == B64Val(s[2])
             vc == B64Val(s[3])
             vd == B64Val(s[4])
             n  == va * 262144 + vb * 4096
                   + (IF vc < 0 THEN 0 ELSE vc * 64) + (IF vd < 0 THEN 0 ELSE vd)
             b1 == n \div 65536
             b2 == (n \div 256) % 256
             b3 == n % 256
         IN  IF va < 0 \/ vb < 0 THEN DecodeErr
             ELSE IF s[3] = 61
                  THEN IF s[4] = 61 /\ Len(s) = 4 THEN DecodeOk(out \o <<b1>>)
                       ELSE DecodeErr
             ELSE IF vc < 0 THEN DecodeErr
             ELSE IF s[4] = 61
                  THEN IF Len(s) = 4 THEN DecodeOk(out \o <<b1, b2>>) ELSE DecodeErr
             ELSE IF vd < 0 THEN DecodeErr
             ELSE B64Quanta(Drop(s, 4), out \o <<b1, b2, b3>>)

IsNewline(b) == b = 13 \/ b = 10

Base64Decode(src) == B64Quanta(SelectSeq(src, LAMBDA b : ~IsNewline(b)), <<>>)

(***************************************************************************)
(* mime/quotedprintable: ioutil.ReadAll(quotedprintable.NewReader(...)).   *)
(* The reader works line by line: trailing white space is dropped, a       *)
(* trailing '=' is a soft line break, "=XX" is the byte with hex value XX, *)
(* a '=' followed by something else is kept as it is, and an unprintable   *)
(* byte is an error.                                                       *)
(***************************************************************************)
IsHex(b) == (b >= 48 /\ b <= 57) \/ (b >= 65 /\ b <= 70) \/ (b >= 97 /\ b <= 102)

HexVal(b) ==
    IF b >= 48 /\ b <= 57 THEN b - 48
    ELSE IF b >= 65 /\ b <= 70 THEN b - 55
    ELSE b - 87

IsQPDiscardWhitespace(b) == b = 10 \/ b = 13 \/ b = 32 \/ b = 9

RECURSIVE TrimRightQP(_)
TrimRightQP(s) ==
    IF Len(s) > 0 /\ IsQPDiscardWhitespace(s[Len(s)])
    THEN TrimRightQP(SubSeq(s, 1, Len(s) - 1))
    ELSE s

BytesHavePrefix(s, prefix) ==
    Len(s) >= Len(prefix) /\ SubSeq(s, 1, Len(prefix)) = prefix

\* the bytes of one line, after the line's ending was dealt with, added to out
RECURSIVE QPLine(_, _)
QPLine(line, out) ==
    IF Len(line) = 0 THEN DecodeOk(out)
    ELSE LET b == line[1]
             hex == Len(line) >= 3 /\ IsHex(line[2]) /\ IsHex(line[3])
             literal == Len(line) >= 2 /\ ~IsNewline(line[2])
             byte == IF b = 61 /\ hex THEN 16 * HexVal(line[2]) + HexVal(line[3]) ELSE b
             used == IF b = 61 /\ hex THEN 3 ELSE 1
             bad == IF b = 61 THEN ~hex /\ ~literal
                    ELSE IF b = 9 \/ b = 13 \/ b = 10 \/ b >= 128 THEN FALSE
                    ELSE b < 32 \/ b > 126
         IN  IF bad THEN DecodeErr ELSE QPLine(Drop(line, used), Append(out, byte))

RECURSIVE FirstLF(_, _)
FirstLF(s, i) == IF i > Len(s) THEN 0 ELSE IF s[i] = 10 THEN i ELSE FirstLF(s, i + 1)

\* out is what the lines before src gave
RECURSIVE QPLines(_, _)
QPLines(src, out) ==
    IF Len(src) = 0 THEN DecodeOk(out)
    ELSE LET i == FirstLF(src, 1)
             whole == IF i = 0 THEN src ELSE SubSeq(src, 1, i)
             atEOF == i = 0
             hasLF == i # 0
             hasCR == BytesHavePrefix(Drop(whole, Len(whole) - 2), <<13, 10>>)
             trimmed == TrimRightQP(whole)
             soft == Len(trimmed) > 0 /\ trimmed[Len(trimmed)] = 61
             stripped == Drop(whole, Len(trimmed))
             line == IF soft THEN SubSeq(trimmed, 1, Len(trimmed) - 1)
                     ELSE IF hasLF THEN trimmed \o (IF hasCR THEN <<13, 10>> ELSE <<10>>)
                     ELSE trimmed
             softErr == /\ soft
                        /\ ~BytesHavePrefix(stripped, <<10>>)
                        /\ ~BytesHavePrefix(stripped, <<13, 10>>)
                        /\ ~(Len(stripped) = 0 /\ Len(line) > 0 /\ atEOF)
             this == QPLine(line, out)
         IN  IF softErr \/ this.err THEN DecodeErr
             ELSE QPLines(IF i = 0 THEN <<>> ELSE Drop(src, i), this.data)

QPDecode(src) == QPLines(src, <<>>)

(***************************************************************************)
(* mime.ParseMediaType: the media type is the text before the first ';',   *)
(* lowered and trimmed, and must be token or token/token; every parameter  *)
(* is ";key=value" with a token or a quoted string for value.              *)
(***************************************************************************)
TSpecials == "()<>@,;:\\\"/[]?="

IsTokenChar(c) == c # " " /\ Index(TSpecials, c) = 0

\* the length of the longest prefix of s made of token characters
RECURSIVE TokenLen(_)
TokenLen(s) ==
    IF Len(s) > 0 /\ IsTokenChar(Head(s)) THEN 1 + TokenLen(Tail(s)) ELSE 0

StrDrop(s, n) == IF n >= Len(s) THEN "" ELSE SubSeq(s, n + 1, Len(s))
StrTake(s, n) == IF n = 0 THEN "" ELSE SubSeq(s, 1, n)

\* nil when mediatype is token or token/token
checkMediaTypeDisposition(s) ==
    LET n == TokenLen(s)
        rest == StrDrop(s, n)
        sub == StrDrop(rest, 1)
        m == TokenLen(sub)
    IN  IF n = 0 THEN "mime: no media type"
        ELSE IF rest = "" THEN "nil"
        ELSE IF ~HasPrefix(rest, "/") THEN "mime: unexpected content after media type"
        ELSE IF m = 0 THEN "mime: expected token after slash"
        ELSE IF StrDrop(sub, m) # "" THEN "mime: unexpected content after media subtype"
        ELSE "nil"

\* a quoted string without its quotes, backslash escapes undone; s follows the
\* opening quote. ok is FALSE when the closing quote is missing.
RECURSIVE consumeQuoted(_)
consumeQuoted(s) ==
    IF Len(s) = 0 THEN [ok |-> FALSE, value |-> "", rest |-> ""]
    ELSE IF Head(s) = "\"" THEN [ok |-> TRUE, value |-> "", rest |-> Tail(s)]
    ELSE IF Head(s) = "\\" /\ Len(s) >= 2
         THEN [consumeQuoted(StrDrop(s, 2)) EXCEPT !.value = SubSeq(s, 2, 2) \o @]
    ELSE [consumeQuoted(Tail(s)) EXCEPT !.value = Head(s) \o @]

consumeValue(s) ==
    IF HasPrefix(s, "\"")
    THEN LET q == consumeQuoted(Tail(s))
         IN  IF q.ok THEN [value |-> q.value, rest |-> q.rest, moved |-> TRUE]
             ELSE [value |-> "", rest |-> s, moved |-> FALSE]
    ELSE LET n == TokenLen(s)
         IN  [value |-> StrTake(s, n), rest |-> StrDrop(s, n), moved |-> n > 0]

\* the parameter read once its name and its value were consumed
mediaParam(key, val, v) ==
    IF val.value = "" /\ ~val.moved THEN [key |-> "", value |-> "", rest |-> v]
    ELSE [key |-> key, value |-> val.value, rest |-> val.rest]

\* key is "" when v does not start with a parameter
consumeMediaParam(v) ==
    LET r1 == TrimLeft(v)
        r2 == TrimLeft(StrDrop(r1, 1))
        n == TokenLen(r2)
        r3 == TrimLeft(StrDrop(r2, n))
        r4 == TrimLeft(StrDrop(r3, 1))
        fail == [key |-> "", value |-> "", rest |-> v]
    IN  IF ~HasPrefix(r1, ";") THEN fail
        ELSE IF n = 0 THEN fail
        ELSE IF ~HasPrefix(r3, "=") THEN fail
        ELSE mediaParam(ToLower(StrTake(r2, n)), consumeValue(r4), v)

\* the parameters of v, a sequence of <<key, value>>, added to params; ok is
\* FALSE on a parameter that does not parse
RECURSIVE consumeParams(_, _)
\* p is the parameter v starts with
addParam(p, params) ==
    IF p.key = "" THEN [ok |-> TrimSpace(p.rest) = ";", params |-> params]
    ELSE consumeParams(p.rest, Append(params, <<p.key, p.value>>))

consumeParams(v, params) ==
    IF Len(TrimLeft(v)) = 0 THEN [ok |-> TRUE, params |-> params]
    ELSE addParam(consumeMediaParam(TrimLeft(v)), params)

\* what ParseMediaType returns for a media type that is well formed
mediaTypeResult(mediatype, ps) ==
    IF ~ps.ok
    THEN [err |-> "mime: invalid media parameter", mediaType |-> mediatype,
          params |-> <<>>]
    ELSE [err |-> "nil", mediaType |-> mediatype, params |-> ps.params]

\* base is v up to its first ';'
parseMediaType(v, base, check) ==
    IF check # "nil" THEN [err |-> check, mediaType |-> "", params |-> <<>>]
    ELSE mediaTypeResult(TrimSpace(ToLower(base)),
                         consumeParams(StrDrop(v, Len(base)), <<>>))

mediaTypeBase(v, semi) == IF semi = 0 THEN v ELSE StrTake(v, semi - 1)

ParseMediaType(v) ==
    parseMediaType(v, mediaTypeBase(v, Index(v, ";")),
                   checkMediaTypeDisposition(
                       TrimSpace(ToLower(mediaTypeBase(v, Index(v, ";"))))))

\* params[key]: the first value stored under key, "" when there is none
RECURSIVE Param(_, _)
Param(params, key) ==
    IF Len(params) = 0 THEN ""
    ELSE IF params[1][1] = key THEN params[1][2]
    ELSE Param(Tail(params), key)

(***************************************************************************)
(* A MIME part as multipart.Reader hands it out: the header fields the     *)
(* program reads, and the body.  The body of a multipart part is a stream  *)
(* of parts again: parts are the parts it holds, and closed says that the  *)
(* terminal boundary line follows them.  When it does not, the stream ends *)
(* inside the last part.                                                   *)
(***************************************************************************)
Leaf(ctype, cte, fname, body) ==
    [ctype |-> ctype, cte |-> cte, fname |-> fname, body |-> body,
     parts |-> <<>>, closed |-> TRUE]

Multi(ctype, parts, closed) ==
    [ctype |-> ctype, cte |-> "", fname |-> "", body |-> <<>>,
     parts |-> parts, closed |-> closed]

\* the boundary of the parts read by the ParsePart call of this index
BoundaryOf(index) == "b" \o ToString(index)

\* the header values and bodies of the parts the inputs are made of
\* ("" is a header that is absent)
LeafTypes ==
    {"", "text/", "text/plain; charset=ISO-8859-1", "Text/HTML",
     "application/x-unknown"}
Encodings ==
    {"", "7bit", "8BIT", "Binary", "x-uuencode", "base64", "Base64", "BASE64",
     "quoted-printable", "Quoted-Printable"}
FileNames == {"", "a.txt"}
Bodies ==
    {Bytes("*hi!*"), Bytes("QUI="), Bytes("Q*=="), Bytes("<p>a=3Db</p>"),
     Bytes("a=") \o <<13, 10>> \o Bytes("b"), <<97, 1, 98>>}

\* every part that is no multipart part
AllLeaves ==
    {Leaf(t, e, n, b) : t \in LeafTypes, e \in Encodings, n \in FileNames, b \in Bodies}

\* the parts of the larger messages
TextPlain == Leaf("text/plain; charset=ISO-8859-1", "", "", Bytes("*hi!*"))
TextHtmlQP == Leaf("Text/HTML", "quoted-printable", "", Bytes("<p>a=3Db</p>"))
TextBase64 == Leaf("text/plain; charset=ISO-8859-1", "Base64", "", Bytes("QUI="))
BadBase64 == Leaf("text/plain; charset=ISO-8859-1", "BASE64", "", Bytes("Q*=="))
BadQP == Leaf("Text/HTML", "Quoted-Printable", "", <<97, 1, 98>>)
NoContentType == Leaf("", "8BIT", "", Bytes("QUI="))
Attachment == Leaf("text/", "7bit", "a.txt", Bytes("<p>a=3Db</p>"))
UnknownType == Leaf("application/x-unknown", "Binary", "", Bytes("*hi!*"))

Leaves ==
    {TextPlain, TextHtmlQP, TextBase64, BadBase64, BadQP, NoContentType,
     Attachment, UnknownType}

\* a multipart part that declares the boundary of the next level
Nested(index, parts, closed) ==
    Multi("multipart/alternative; boundary=" \o BoundaryOf(index + 1), parts, closed)

\* a multipart part that declares no boundary
NoBoundary == Multi("multipart/alternative", <<>>, TRUE)

\* the streams of exactly n parts (nested ones counted) that the ParsePart
\* call of this index may read
RECURSIVE TreesN(_, _), ForestsN(_, _)
TreesN(n, index) ==
    IF n = 1
    THEN Leaves \cup (IF index < MaxNest
                      THEN {Nested(index, <<>>, c) : c \in BOOLEAN} \cup {NoBoundary}
                      ELSE {})
    ELSE IF index < MaxNest
         THEN {Nested(index, f, c) : f \in ForestsN(n - 1, index + 1), c \in BOOLEAN}
         ELSE {}

ForestsN(n, index) ==
    IF n = 0 THEN {<<>>}
    ELSE UNION {{<<t>> \o f : t \in TreesN(k, index), f \in ForestsN(n - k, index)} :
                k \in 1..n}

Forests(n, index) == UNION {ForestsN(k, index) : k \in 0..n}

\* the mail message on stdin: readable says mail.ReadMessage succeeds
Message(readable, ctype, parts, closed) ==
    [readable |-> readable, ctype |-> ctype, parts |-> parts, closed |-> closed]

TopTypes ==
    {"", "text/", "text/plain; charset=ISO-8859-1", "multipart/mixed",
     "Multipart/Alternative; boundary=\"" \o BoundaryOf(1) \o "\""}

Mixed == "multipart/mixed; boundary=" \o BoundaryOf(1)

Messages ==
    {Message(TRUE, Mixed, f, c) : f \in Forests(MaxParts, 1), c \in BOOLEAN}
    \cup {Message(TRUE, t, f, TRUE) : t \in TopTypes, f \in Forests(1, 1)}
    \cup {Message(FALSE, "", <<>>, TRUE)}

\* the messages of one part that is no multipart part, at the top or nested
LeafMessages ==
    {Message(TRUE, Mixed, <<l>>, c) : l \in AllLeaves, c \in BOOLEAN}
    \cup {Message(TRUE, Mixed, <<Nested(1, <<l>>, c)>>, TRUE) :
             l \in AllLeaves, c \in BOOLEAN}

(***************************************************************************)
(* The library calls on every header value and body the inputs carry,      *)
(* computed once.                                                          *)
(***************************************************************************)
ContentTypes ==
    LeafTypes \cup {Nested(i, <<>>, TRUE).ctype : i \in 1..MaxNest}
    \cup {NoBoundary.ctype} \cup TopTypes \cup {Mixed}

mediaTypeOf == [v \in ContentTypes |-> ParseMediaType(v)]
upperOf == [v \in Encodings |-> ToUpper(v)]
base64Of == [b \in Bodies |-> Base64Decode(b)]
quotedPrintableOf == [b \in Bodies |-> QPDecode(b)]

(***************************************************************************)
(* BuildFileName                                                           *)
(***************************************************************************)
\* mime.ExtensionsByType: the extensions registered for a media type, sorted;
\* the empty sequence (a nil slice) when there is none
\* (Go's built-in table; a system mime.types file may register more)
ExtensionsByType(mediaType) ==
    IF mediaType = "text/plain" THEN <<".txt">>
    ELSE IF mediaType = "text/html" THEN <<".htm", ".html">>
    ELSE <<>>

\* fmt.Sprintf("%s-%d%s", radix, index, mime_type[0]); panic says that
\* mime_type[0] was read from an empty slice
Sprintf(radix, index, mime_type) ==
    IF Len(mime_type) = 0 THEN [panic |-> TRUE, filename |-> ""]
    ELSE [panic |-> FALSE,
          filename |-> radix \o "-" \o ToString(index) \o mime_type[1]]

\* the name built from the part's Content-Type, parsed to mt
NameOfType(mt, radix, index) ==
    IF mt.err = "nil" THEN Sprintf(radix, index, ExtensionsByType(mt.mediaType))
    ELSE [panic |-> FALSE, filename |-> ""]

BuildFileName(part, radix, index) ==
    IF Len(part.fname) > 0 THEN [panic |-> FALSE, filename |-> part.fname]
    ELSE NameOfType(mediaTypeOf[part.ctype], radix, index)

(***************************************************************************)
(* WritePart                                                               *)
(***************************************************************************)
\* ioutil.WriteFile, whose error the program drops: no file can be opened
\* under the empty name
WriteFile(filename, data) ==
    [written |-> filename # "", data |-> data, log |-> ""]

NoWrite(message) == [written |-> FALSE, data |-> <<>>, log |-> message]

\* a variant of WritePart: the header is compared as it is written, without
\* strings.ToUpper
WritePart_CaseSensitive(part, filename, readErr) ==
    IF readErr THEN NoWrite("Error reading MIME part data")
    ELSE IF part.cte = "BASE64"
         THEN IF base64Of[part.body].err THEN NoWrite("Error decoding base64")
              ELSE WriteFile(filename, base64Of[part.body].data)
    ELSE IF part.cte = "QUOTED-PRINTABLE"
         THEN IF quotedPrintableOf[part.body].err
              THEN NoWrite("Error decoding quoted-printable")
              ELSE WriteFile(filename, quotedPrintableOf[part.body].data)
    ELSE WriteFile(filename, part.body)

\* a variant of WritePart: a payload that does not decode is written as it is
WritePart_WriteOnError(part, filename, readErr) ==
    IF readErr THEN NoWrite("Error reading MIME part data")
    ELSE IF upperOf[part.cte] = "BASE64" /\ ~base64Of[part.body].err
         THEN WriteFile(filename, base64Of[part.body].data)
    ELSE IF upperOf[part.cte] = "QUOTED-PRINTABLE" /\ ~quotedPrintableOf[part.body].err
         THEN WriteFile(filename, quotedPrintableOf[part.body].data)
    ELSE WriteFile(filename, part.body)

\* readErr says that ioutil.ReadAll(part) fails: the stream ends inside the part
WritePart(part, filename, readErr) ==
    LET part_data == part.body
        content_transfer_encoding == upperOf[part.cte]
        b64 == base64Of[part_data]
        qp == quotedPrintableOf[part_data]
    IN  IF readErr THEN NoWrite("Error reading MIME part data")
        ELSE IF content_transfer_encoding = "BASE64"
             THEN IF b64.err THEN NoWrite("Error decoding base64")
                  ELSE WriteFile(filename, b64.data)
        ELSE IF content_transfer_encoding = "QUOTED-PRINTABLE"
             THEN IF qp.err THEN NoWrite("Error decoding quoted-printable")
                  ELSE WriteFile(filename, qp.data)
        ELSE WriteFile(filename, part_data)

(***************************************************************************)
(* The state.                                                              *)
(***************************************************************************)
VARIABLES
    msg,     \* the message on stdin
    pc,      \* "main", "ParsePart", "done", "fatal" (log.Fatal) or "panic"
    stack,   \* the active ParsePart calls, the innermost last
    events,  \* the files written, in order: name, data and the part written
    files,   \* the directory: the set of [name, data]
    log,     \* what was reported, in order
    named    \* the last BuildFileName call and its result, <<>> before the first

vars == <<msg, pc, stack, events, files, log, named>>

\* one ParsePart call: the reader over what is left of its stream, the
\* boundary and the index it was called with
Frame(parts, closed, boundary, index) ==
    [parts |-> parts, closed |-> closed, boundary |-> boundary, index |-> index]

Top == stack[Len(stack)]

\* reader.NextPart() of the innermost call. readErr says that the part
\* handed out is the one the stream ends in.
NextPart(frame) ==
    IF frame.boundary = ""
    THEN [err |-> "multipart: boundary is empty", part |-> NoBoundary, readErr |-> FALSE]
    ELSE IF Len(frame.parts) = 0
         THEN [err |-> IF frame.closed THEN "EOF" ELSE "multipart: NextPart: EOF",
               part |-> NoBoundary, readErr |-> FALSE]
    ELSE [err |-> "nil", part |-> Head(frame.parts),
          readErr |-> ~frame.closed /\ Len(frame.parts) = 1]

\* a variant of IsMultipart: a multipart part is recursed into only when it
\* names a boundary
IsMultipart_NeedsBoundary(part) ==
    /\ mediaTypeOf[part.ctype].err = "nil"
    /\ HasPrefix(mediaTypeOf[part.ctype].mediaType, "multipart/")
    /\ Param(mediaTypeOf[part.ctype].params, "boundary") # ""

\* a variant of IsMultipart: the test of line 119 narrowed to multipart/mixed
IsMultipart_MixedOnly(part) ==
    mediaTypeOf[part.ctype].err = "nil" /\ mediaTypeOf[part.ctype].mediaType = "multipart/mixed"

\* the test of line 119 on the part's Content-Type
IsMultipartType(mt) == mt.err = "nil" /\ HasPrefix(mt.mediaType, "multipart/")

IsMultipart(part) == IsMultipartType(mediaTypeOf[part.ctype])

\* the call ParsePart(new_part, params["boundary"], index+1)
Recurse(part, index) ==
    Frame(part.parts, part.closed,
          Param(mediaTypeOf[part.ctype].params, "boundary"), index + 1)

\* the loop of the innermost call goes on with the next part
Advance(stk) == [stk EXCEPT ![Len(stk)].parts = Tail(@)]

\* the innermost call returns
Return(stk) == SubSeq(stk, 1, Len(stk) - 1)

\* break on io.EOF
BreakOnEOF(stk) == Return(stk)

\* a variant of BreakOnError: the error ends every active ParsePart call
BreakOnError_AbortAll(stk) == <<>>

\* break on another error of NextPart
BreakOnError(stk) == Return(stk)

\* a variant of MainCheck: main without the test of line 164
MainCheck_NoPrefixTest(m) ==
    IF ~m.readable THEN "Parse mail KO"
    ELSE IF mediaTypeOf[m.ctype].err # "nil" THEN mediaTypeOf[m.ctype].err
    ELSE ""

\* "" when main goes on to ParsePart, and what log.Fatal reports otherwise
\* mt is the message's Content-Type, parsed
MainCheckType(mt) ==
    IF mt.err # "nil" THEN mt.err
    ELSE IF ~HasPrefix(mt.mediaType, "multipart/")
         THEN "Not a multipart MIME message"
    ELSE ""

MainCheck(m) ==
    IF ~m.readable THEN "Parse mail KO" ELSE MainCheckType(mediaTypeOf[m.ctype])

Init ==
    /\ msg \in Messages
    /\ pc = "main"
    /\ stack = <<>>
    /\ events = <<>>
    /\ files = {}
    /\ log = <<>>
    /\ named = <<>>

Main ==
    /\ pc = "main"
    /\ \E fatal \in {MainCheck(msg)} :
         IF fatal # ""
         THEN /\ pc' = "fatal"
              /\ log' = Append(log, fatal)
              /\ stack' = stack
         ELSE /\ pc' = "ParsePart"
              /\ log' = log
              /\ stack' = <<Frame(msg.parts, msg.closed,
                                  Param(mediaTypeOf[msg.ctype].params, "boundary"), 1)>>
    /\ UNCHANGED <<msg, events, files, named>>

ParsePartEOF ==
    /\ pc = "ParsePart"
    /\ NextPart(Top).err = "EOF"
    /\ stack' = BreakOnEOF(stack)
    /\ pc' = IF Len(stack') = 0 THEN "done" ELSE "ParsePart"
    /\ UNCHANGED <<msg, events, files, log, named>>

ParsePartError ==
    /\ pc = "ParsePart"
    /\ NextPart(Top).err \notin {"nil", "EOF"}
    /\ log' = Append(log, "Error going through the MIME parts")
    /\ stack' = BreakOnError(stack)
    /\ pc' = IF Len(stack') = 0 THEN "done" ELSE "ParsePart"
    /\ UNCHANGED <<msg, events, files, named>>

ParsePartRecurse ==
    /\ pc = "ParsePart"
    /\ \E next \in {NextPart(Top)} :
         /\ next.err = "nil"
         /\ IsMultipart(next.part)
         /\ stack' = Append(Advance(stack), Recurse(next.part, Top.index))
    /\ UNCHANGED <<msg, pc, events, files, log, named>>

\* the leaf new_part got its name from BuildFileName and w from WritePart
WriteLeaf(new_part, name, w) ==
    /\ named' = <<[part |-> new_part, radix |-> Top.boundary, index |-> 1,
                   panic |-> name.panic, filename |-> name.filename]>>
    /\ IF name.panic
       THEN /\ pc' = "panic"
            /\ stack' = <<>>
            /\ UNCHANGED <<events, files, log>>
       ELSE /\ pc' = pc
            /\ stack' = Advance(stack)
            /\ log' = IF w.log = "" THEN log ELSE Append(log, w.log)
            /\ events' = IF w.written
                         THEN Append(events, [name |-> name.filename,
                                              data |-> w.data, part |-> new_part])
                         ELSE events
            /\ files' = IF w.written
                        THEN {f \in files : f.name # name.filename}
                             \cup {[name |-> name.filename, data |-> w.data]}
                        ELSE files

ParsePartLeaf ==
    /\ pc = "ParsePart"
    /\ \E next \in {NextPart(Top)} :
         /\ next.err = "nil"
         /\ ~IsMultipart(next.part)
         /\ \E name \in {BuildFileName(next.part, Top.boundary, 1)} :
              WriteLeaf(next.part, name,
                        WritePart(next.part, name.filename, next.readErr))
    /\ UNCHANGED msg

Next ==
    \/ Main
    \/ ParsePartEOF
    \/ ParsePartError
    \/ ParsePartRecurse
    \/ ParsePartLeaf

Spec == Init /\ [][Next]_vars

\* the runs on the messages of one part, over every header value and body
InitLeaf ==
    /\ msg \in LeafMessages
    /\ pc = "main"
    /\ stack = <<>>
    /\ events = <<>>
    /\ files = {}
    /\ log = <<>>
    /\ named = <<>>

SpecLeaf == InitLeaf /\ [][Next]_vars

(***************************************************************************)
(* What the properties below speak of.                                     *)
(***************************************************************************)
\* the run is over: main returned, or a panic unwound it
Finished == pc \in {"done", "panic"}

\* the header values in lower case
lowerOf == [v \in Encodings |-> ToLower(v)]

\* the Content-Transfer-Encoding cte names this encoding, in any letter case
EqualFold(cte, encoding) == lowerOf[cte] = encoding

\* the Content-Type of p is multipart/*
MultipartTyped(p) ==
    /\ mediaTypeOf[p.ctype].err = "nil"
    /\ SubSeq(mediaTypeOf[p.ctype].mediaType \o "          ", 1, 10) = "multipart/"

\* the boundary parameter of the Content-Type of p
BoundaryParam(p) == Param(mediaTypeOf[p.ctype].params, "boundary")

\* the payload of the leaf p is BASE64 or QUOTED-PRINTABLE and does not decode
DecodeFails(p) ==
    \/ EqualFold(p.cte, "base64") /\ base64Of[p.body].err
    \/ EqualFold(p.cte, "quoted-printable") /\ quotedPrintableOf[p.body].err

\* every stream of parts ends with its terminal boundary line, and every
\* multipart part names a boundary
RECURSIVE WellFormedParts(_)
WellFormedParts(parts) ==
    \A i \in DOMAIN parts :
        MultipartTyped(parts[i]) =>
            /\ parts[i].closed
            /\ BoundaryParam(parts[i]) # ""
            /\ WellFormedParts(parts[i].parts)

WellFormed(m) ==
    /\ m.readable
    /\ MultipartTyped(m)
    /\ BoundaryParam(m) # ""
    /\ m.closed
    /\ WellFormedParts(m.parts)

\* a well-formed message of leaves only, whose payloads decode
FlatWellFormed(m) ==
    /\ WellFormed(m)
    /\ \A i \in DOMAIN m.parts : ~MultipartTyped(m.parts[i]) /\ ~DecodeFails(m.parts[i])

(***************************************************************************)
(* C1                                                                      *)
(***************************************************************************)
\* C1: when the run on a well-formed message of N leaves and no nested
\* multipart part is over, exactly N files were written, one per leaf, in the
\* order of the leaves in the stream.
C1_OneFilePerLeaf ==
    (FlatWellFormed(msg) /\ Finished) =>
        /\ Len(events) = Len(msg.parts)
        /\ \A i \in DOMAIN events : events[i].part = msg.parts[i]

(***************************************************************************)
(* C2                                                                      *)
(***************************************************************************)
\* C2: no two leaves written in one run got the same name from BuildFileName
\* (the leaves that carry no file name of their own get theirs from the radix
\* and the index).
C2_NamesDistinct ==
    \A i, j \in DOMAIN events :
        (i # j /\ events[i].part.fname = "" /\ events[j].part.fname = "") =>
            events[i].name # events[j].name

(***************************************************************************)
(* C3                                                                      *)
(***************************************************************************)
\* what the leaf p, read whole from a stream with this boundary, leaves behind
LeafOutcome(p, boundary) ==
    LET name == BuildFileName(p, boundary, 1).filename
        w == WritePart(p, name, FALSE)
    IN  IF w.written THEN <<[name |-> name, data |-> w.data, part |-> p] >> ELSE <<>>

\* the outcome of a stream of parts: the outcomes of its parts, in order, where
\* the outcome of a multipart part is the outcome of the stream it holds.  The
\* reader of an empty boundary hands out nothing, and a part the stream ends in
\* cannot be read.
RECURSIVE Outcome(_, _, _)
Outcome(parts, closed, boundary) ==
    IF boundary = "" \/ Len(parts) = 0 THEN <<>>
    ELSE (IF MultipartTyped(Head(parts))
          THEN Outcome(Head(parts).parts, Head(parts).closed, BoundaryParam(Head(parts)))
          ELSE IF ~closed /\ Len(parts) = 1 THEN <<>>
          ELSE LeafOutcome(Head(parts), boundary))
         \o Outcome(Tail(parts), closed, boundary)

\* a multipart part that names a boundary
IsWrapper(p) == MultipartTyped(p) /\ BoundaryParam(p) # ""

\* multipart/mixed holding one multipart/alternative of two leaves
NestedExample == Message(TRUE, Mixed, <<Nested(1, <<TextPlain, TextHtmlQP>>, TRUE)>>, TRUE)

\* C3: a multipart part with a non-empty boundary is never written itself; when
\* the run on a well-formed message returns, what was written is the in-order
\* concatenation of the outcomes of its parts, a multipart part standing for
\* the parts it holds; multipart/mixed holding one multipart/alternative of two
\* leaves gives exactly 2 written parts.
C3_WrapperIsItsChildren ==
    /\ \A i \in DOMAIN events : ~IsWrapper(events[i].part)
    /\ (WellFormed(msg) /\ pc = "done") =>
           events = Outcome(msg.parts, msg.closed, BoundaryParam(msg))
    /\ (msg = NestedExample /\ pc \notin {"main", "ParsePart"}) =>
           /\ pc = "done"
           /\ Len(events) = 2
           /\ events[1].part = TextPlain
           /\ events[2].part = TextHtmlQP

\* the run on the nested example returned with its two leaves written
C3_Witness ==
    /\ msg = NestedExample
    /\ pc = "done"
    /\ Len(events) = 2

(***************************************************************************)
(* C4                                                                      *)
(***************************************************************************)
\* the message cannot be read, or has no Content-Type that parses, or one
\* whose media type does not start with multipart/
FatalInput(m) == ~m.readable \/ ~MultipartTyped(m)

\* C4: on a message without a Content-Type that parses, or whose top-level
\* media type is not multipart/*, the run stops with the fatal report:
\* ParsePart is never called and nothing is ever written.
C4_FatalBeforeOutput ==
    /\ FatalInput(msg) =>
           /\ pc \in {"main", "fatal"}
           /\ stack = <<>>
           /\ events = <<>>
           /\ files = {}
           /\ named = <<>>
    /\ pc = "fatal" => FatalInput(msg) /\ Len(log) = 1
    /\ (FatalInput(msg) /\ pc # "main") => pc = "fatal" /\ Len(log) = 1

\* a message of type text/plain that holds a part ended with the fatal report
C4_Witness ==
    /\ pc = "fatal"
    /\ msg.readable
    /\ mediaTypeOf[msg.ctype].mediaType = "text/plain"
    /\ Len(msg.parts) > 0
    /\ events = <<>>

(***************************************************************************)
(* C5                                                                      *)
(***************************************************************************)
\* the stream of parts without the leaves whose payload fails to decode; a
\* leaf the stream ends in is never decoded
RECURSIVE Strip(_, _)
Strip(parts, closed) ==
    IF Len(parts) = 0 THEN <<>>
    ELSE (IF MultipartTyped(Head(parts))
          THEN <<[Head(parts) EXCEPT !.parts = Strip(@, Head(parts).closed)]>>
          ELSE IF DecodeFails(Head(parts)) /\ (closed \/ Len(parts) > 1) THEN <<>>
          ELSE <<Head(parts)>>)
         \o Strip(Tail(parts), closed)

\* the leaves WritePart is asked to decode and cannot, in stream order
RECURSIVE Undecodable(_, _, _)
Undecodable(parts, closed, boundary) ==
    IF boundary = "" \/ Len(parts) = 0 THEN <<>>
    ELSE (IF MultipartTyped(Head(parts))
          THEN Undecodable(Head(parts).parts, Head(parts).closed,
                           BoundaryParam(Head(parts)))
          ELSE IF DecodeFails(Head(parts)) /\ (closed \/ Len(parts) > 1)
               THEN <<Head(parts)>>
          ELSE <<>>)
         \o Undecodable(Tail(parts), closed, boundary)

DecodeReports ==
    SelectSeq(log, LAMBDA l : l \in {"Error decoding base64",
                                     "Error decoding quoted-printable"})

Truncated(frame) ==
    frame.boundary # "" /\ Len(frame.parts) = 0 /\ ~frame.closed

\* C6: when a ParsePart call of index d > 1 reaches the end of its stream
\* without the terminal boundary, that call alone returns to the loop of the
\* call of index d - 1, whose remaining parts are left as they were; the error
\* is reported; no step takes back what was written.
C6_TruncationAbortsBranchOnly ==
    /\ [][(pc = "ParsePart" /\ Top.index > 1 /\ Truncated(Top)) =>
              /\ pc' = "ParsePart"
              /\ stack' = SubSeq(stack, 1, Len(stack) - 1)
              /\ log' = Append(log, "Error going through the MIME parts")
              /\ events' = events
              /\ files' = files]_vars
    /\ [][/\ Len(events') >= Len(events)
          /\ SubSeq(events', 1, Len(events)) = events
          /\ {f.name : f \in files} \subseteq {f.name : f \in files'}]_vars
    /\ [](pc = "done" =>
              events = Outcome(msg.parts, msg.closed, BoundaryParam(msg)))

\* the nested stream was truncated, and the leaves before and after the
\* multipart part were both written
C6_Witness ==
    /\ pc = "done"
    /\ msg.parts = <<TextPlain, Nested(1, <<>>, FALSE), TextHtmlQP>>
    /\ Len(events) = 2
    /\ events[2].part = TextHtmlQP
    /\ log = <<"Error going through the MIME parts">>

NextIsUnbounded ==
    /\ pc = "ParsePart"
    /\ Top.boundary # ""
    /\ Len(Top.parts) > 0
    /\ MultipartTyped(Head(Top.parts))
    /\ BoundaryParam(Head(Top.parts)) = ""

DepthLimit == MaxNest - 1

\* C8: the index of every active ParsePart call is at most the maximum depth,
\* however deeply the input nests.
C8_DepthBounded ==
    \A i \in DOMAIN stack : stack[i].index <= DepthLimit

(***************************************************************************)
(* C9                                                                      *)
(***************************************************************************)
\* the name of the three-step rule: the part's own file name; else radix,
\* index and the extension of the part's media type; else radix and index
RuleName(part, radix, index) ==
    IF part.fname # "" THEN part.fname
    ELSE IF /\ mediaTypeOf[part.ctype].err = "nil"
            /\ ExtensionsByType(mediaTypeOf[part.ctype].mediaType) # <<>>
         THEN radix \o "-" \o ToString(index)
                    \o ExtensionsByType(mediaTypeOf[part.ctype].mediaType)[1]
    ELSE radix \o "-" \o ToString(index)

\* C9: BuildFileName returns the name of the three-step rule, which is never
\* empty.
C9_ThreeStepRule ==
    \A i \in DOMAIN named :
        /\ ~named[i].panic
        /\ named[i].filename = RuleName(named[i].part, named[i].radix, named[i].index)
        /\ named[i].filename # ""

(***************************************************************************)
(* C10                                                                     *)
(***************************************************************************)
\* C10: what WritePart writes for a leaf is the base64 decoding of its body
\* when its Content-Transfer-Encoding is BASE64 in any letter case, the
\* quoted-printable decoding when it is QUOTED-PRINTABLE in any letter case,
\* and the body itself, byte for byte, for every other or no encoding.
C10_PassThroughUnlessEncoded ==
    \A i \in DOMAIN events :
        events[i].data =
            IF EqualFold(events[i].part.cte, "base64")
            THEN base64Of[events[i].part.body].data
            ELSE IF EqualFold(events[i].part.cte, "quoted-printable")
                 THEN quotedPrintableOf[events[i].part.body].data
            ELSE events[i].part.body

\* an 8BIT leaf whose body reads as base64 was written as it is
C10_Witness ==
    /\ Len(events) = 1
    /\ events[1].part.cte = "8BIT"
    /\ events[1].part.body = Bytes("QUI=")
    /\ events[1].data = Bytes("QUI=")

=============================================================================
